---- MODULE Spec2Model ----
(***************************************************************************)
(* State-machine model of the USB DFU / FLIP bootloader (rram-usbdfu.c).   *)
(*                                                                         *)
(* The bootloader is single threaded: main() runs USB_USBTask() forever,   *)
(* and every class request is served by                                    *)
(* EVENT_USB_Device_UnhandledControlRequest().  The only places where the  *)
(* handler stops are its busy waits on endpoint flags.  The model has one  *)
(* action per control request (the handler run up to its return or up to   *)
(* the first busy wait inside a streaming loop), one action for an OUT     *)
(* packet arriving while a Download loop waits for it, and one action for  *)
(* the IN endpoint becoming ready while an Upload loop waits for it.       *)
(*                                                                         *)
(* Scaling.  An address byte of the payload is ByteBits wide (8 in the     *)
(* build), so the uint16_t cursor of the flash and EEPROM paths wraps at   *)
(* 2^(2*ByteBits).  The page sizes and the control endpoint size come from *)
(* avr-libc / LUFA headers that are not part of the repository; the model  *)
(* gives them small values that keep their ratios (a page is a whole       *)
(* number of words).                                                       *)
(***************************************************************************)
EXTENDS Integers, Sequences, FiniteSets, TLC

(* ---------------- enum DFU_Class_Specific_Request_t -------------------- *)
DFU_DETACH    == 0
DFU_DNLOAD    == 1
DFU_UPLOAD    == 2
DFU_GETSTATUS == 3
DFU_CLRSTATUS == 4
DFU_GETSTATE  == 5
DFU_ABORT     == 6

(* ---------------- enum DFU_Status_t ------------------------------------ *)
OK              == 0
errCHECK_ERASED == 5

(* ---------------- enum DFU_State_t ------------------------------------- *)
dfuIDLE          == 2
dfuDNLOAD_SYNC   == 3
dfuDNBUSY        == 4
dfuDNLOAD_IDLE   == 5
dfuMANIFEST_SYNC == 6
dfuUPLOAD_IDLE   == 9
dfuERROR         == 10

(* ---------------- enum FLIP_Group_Command_t ---------------------------- *)
CMD_GROUP_DOWNLOAD == 1
CMD_GROUP_UPLOAD   == 3
CMD_GROUP_EXEC     == 4
CMD_GROUP_READ     == 5
CMD_GROUP_SELECT   == 6

(* ---------------- bootloader / device information ---------------------- *)
BOOTLOADER_VERSION_MAJOR == 2
BOOTLOADER_VERSION_MINOR == 0
BOOTLOADER_VERSION  == (BOOTLOADER_VERSION_MAJOR * 16) + BOOTLOADER_VERSION_MINOR
BOOTLOADER_ID_BYTE1 == 220
BOOTLOADER_ID_BYTE2 == 251
MANUFACTURER_CODE   == 30
FAMILY_CODE         == 148
PRODUCT_NAME        == 19
PRODUCT_REVISION    == 20

(* ---------------- widths and build parameters -------------------------- *)
\* Bits of one address byte of the payload (8 in the build).
ByteBits == 2
\* Number of 64KB banks the host selects among.
NumBanks == 2
\* At most this many memory-modifying commands are started in one session.
MaxMods == 1

ByteMod == 2 ^ ByteBits
\* Range of uint16_t, the type of startAddr/endAddr/curAddr for flash, EEPROM.
AddrMod == ByteMod * ByteMod
\* Range of uint32_t, the type of the dataflash cursor.
LongMod == AddrMod * AddrMod
U16(x) == x % AddrMod
U32(x) == x % LongMod

\* Flash page size in bytes (avr/io.h), control endpoint size (LUFA makefile),
\* dataflash page size (board driver), start of the boot section (makefile).
SPM_PAGESIZE                == 4
FIXED_CONTROL_ENDPOINT_SIZE == 4
DATAFLASH_PAGE_SIZE         == 8
BOOT_START_ADDR             == AddrMod - SPM_PAGESIZE
\* Number of EEPROM cells the erase command rewrites (512 of the 1024 in the build).
EEPROM_ERASE_LEN            == AddrMod \div 2
\* Cells of the external dataflash: NumBanks banks of one 16-bit window each.
DF_SIZE == NumBanks * AddrMod

BLANK == 255

(* ---------------- bytes ------------------------------------------------ *)
RECURSIVE AndBits(_, _, _)
AndBits(a, b, n) ==
  IF n = 0 THEN 0
  ELSE ((a % 2) * (b % 2)) + (2 * AndBits(a \div 2, b \div 2, n - 1))
\* Programming a flash cell can only clear bits: the cell becomes old AND new.
And8(a, b) == AndBits(a, b, 8)

\* ((uint16_t)hi << 8) | (uint16_t)lo
Addr16(hi, lo) == U16((hi * ByteMod) + lo)
\* A decoding that leaves the bank out of the address.
Addr32_nobank(bank, hi, lo) == U32((hi * ByteMod) + lo)
\* ((uint32_t)bank << 16) | ((uint32_t)hi << 8) | (uint32_t)lo
Addr32(bank, hi, lo) == U32((bank * AddrMod) + (hi * ByteMod) + lo)
HiByte(a) == (a \div ByteMod) % ByteMod
LoByte(a) == a % ByteMod

(* ---------------- state ------------------------------------------------ *)
VARIABLES
  DFU_State, DFU_Status, flipCommand, waitForSecondRequest, nonBlankAddr,
  AppStartPtr, curFlash64KBPageNumber,
  flash, pageBuffer, eeprom, dataflash, dfBuffer, dfPtr, dfSelected,
  wdtEnabled, hwUp,
  pc, loc,
  request, hw, epIn,
  host

vars == << DFU_State, DFU_Status, flipCommand, waitForSecondRequest, nonBlankAddr,
           AppStartPtr, curFlash64KBPageNumber,
           flash, pageBuffer, eeprom, dataflash, dfBuffer, dfPtr, dfSelected,
           wdtEnabled, hwUp, pc, loc, request, hw, epIn, host >>

\* The whole machine as one record, so that the handlers can be written as
\* functions from machine to machine, statement by statement.
Cur ==
  [ DFU_State |-> DFU_State, DFU_Status |-> DFU_Status, flipCommand |-> flipCommand,
    waitForSecondRequest |-> waitForSecondRequest, nonBlankAddr |-> nonBlankAddr,
    AppStartPtr |-> AppStartPtr, curFlash64KBPageNumber |-> curFlash64KBPageNumber,
    flash |-> flash, pageBuffer |-> pageBuffer, eeprom |-> eeprom,
    dataflash |-> dataflash, dfBuffer |-> dfBuffer, dfPtr |-> dfPtr,
    dfSelected |-> dfSelected, wdtEnabled |-> wdtEnabled, hwUp |-> hwUp,
    pc |-> pc, loc |-> loc, request |-> request, hw |-> hw, epIn |-> epIn,
    host |-> host, inCmd |-> (pc \in {"dnload", "upload"}) ]

Become(m) ==
  /\ DFU_State' = m.DFU_State
  /\ DFU_Status' = m.DFU_Status
  /\ flipCommand' = m.flipCommand
  /\ waitForSecondRequest' = m.waitForSecondRequest
  /\ nonBlankAddr' = m.nonBlankAddr
  /\ AppStartPtr' = m.AppStartPtr
  /\ curFlash64KBPageNumber' = m.curFlash64KBPageNumber
  /\ flash' = m.flash
  /\ pageBuffer' = m.pageBuffer
  /\ eeprom' = m.eeprom
  /\ dataflash' = m.dataflash
  /\ dfBuffer' = m.dfBuffer
  /\ dfPtr' = m.dfPtr
  /\ dfSelected' = m.dfSelected
  /\ wdtEnabled' = m.wdtEnabled
  /\ hwUp' = m.hwUp
  /\ pc' = m.pc
  /\ loc' = m.loc
  /\ request' = m.request
  /\ hw' = m.hw
  /\ epIn' = m.epIn
  /\ host' = m.host

\* One hardware event of the command handlers: <<kind, address or page>>.
\* Only what ProcessFlipCommand and its callees do is logged (m.inCmd), and a
\* transfer that never ends stops being logged after LogCap events.
LogCap == 3 * AddrMod
Ev(m, kind, n) ==
  IF m.inCmd /\ Len(m.hw) < LogCap THEN [m EXCEPT !.hw = Append(@, <<kind, n>>)] ELSE m

NoLoc == [startAddr |-> 0, endAddr |-> 0, curAddr |-> 0]
NoDownload == [target |-> 255, startAddr |-> 0, endAddr |-> 0, seed |-> 0, complete |-> FALSE]

(* ---------------- the host's data -------------------------------------- *)
\* The byte the host streams for address a in a transfer with pattern `seed`.
\* Both patterns are injective on the window sizes of the model and never blank.
HostSeeds == {0}
HostByte(seed, a) == IF seed = 0 THEN 16 + (a % 128) ELSE 160 + ((3 * a) % 64)

(* ---------------- endpoint primitives (LUFA) --------------------------- *)
\* Endpoint_Write_Byte: append to the IN packet being built (the last one of epIn).
Endpoint_Write_Byte(m, b) ==
  [m EXCEPT !.epIn = [@ EXCEPT ![Len(@)] = Append(@, b)]]
\* The handler starts to build an IN packet once Endpoint_IsINReady() holds.
\* A streaming Upload that never ends stops being recorded after InCap packets.
InCap == 2 + (AddrMod \div FIXED_CONTROL_ENDPOINT_SIZE)
Endpoint_WaitIN(m) ==
  IF Len(m.epIn) < InCap THEN [m EXCEPT !.epIn = Append(@, << >>)]
  ELSE [m EXCEPT !.epIn = Append(SubSeq(@, 2, Len(@)), << >>)]
Endpoint_Write_Word_LE(m, w) ==
  Endpoint_Write_Byte(Endpoint_Write_Byte(m, w % 256), (w \div 256) % 256)
\* Endpoint_ClearIN: the packet goes to the host.
Endpoint_ClearIN(m) == Ev(m, "in", Len(m.epIn[Len(m.epIn)]))
\* Endpoint_ClearOUT: the OUT packet is acknowledged.
Endpoint_ClearOUT(m) == Ev(m, "out", 0)

(* ---------------- flash primitives (avr/boot.h, avr/pgmspace.h) -------- *)
PageBase(a) == a - (a % SPM_PAGESIZE)
boot_page_erase(m, a) ==
  Ev([m EXCEPT !.flash = [x \in DOMAIN @ |-> IF PageBase(x) = PageBase(a) THEN BLANK ELSE @[x]]],
     "erase", PageBase(a))
\* The temporary page buffer is addressed by word: bit 0 of the address is ignored.
boot_page_fill(m, a, lo, hi) ==
  LET w == (a % SPM_PAGESIZE) - (a % 2)
  IN Ev([m EXCEPT !.pageBuffer = [@ EXCEPT ![w] = lo, ![w + 1] = hi]], "fill", a)
\* Page write programs the buffer into the page (bits are only cleared) and
\* the hardware then clears the buffer.
boot_page_write(m, a) ==
  Ev([m EXCEPT !.flash = [x \in DOMAIN @ |->
                            IF PageBase(x) = PageBase(a)
                            THEN And8(@[x], m.pageBuffer[x % SPM_PAGESIZE]) ELSE @[x]],
               !.pageBuffer = [x \in DOMAIN @ |-> BLANK]],
     "commit", PageBase(a))
boot_rww_enable(m) == Ev(m, "rww", 0)
pgm_read_byte(m, a) == m.flash[a]
pgm_read_word(m, a) == m.flash[a] + (256 * m.flash[U16(a + 1)])

(* ---------------- EEPROM primitives (avr/eeprom.h) --------------------- *)
eeprom_write_byte(m, a, b) == Ev([m EXCEPT !.eeprom = [@ EXCEPT ![a] = b]], "ee_write", a)
eeprom_read_byte(m, a) == m.eeprom[a]

(* ---------------- dataflash primitives (board driver) ------------------ *)
Dataflash_SelectChip(m) == Ev([m EXCEPT !.dfSelected = TRUE], "df_select", 0)
Dataflash_DeselectChip(m) == Ev([m EXCEPT !.dfSelected = FALSE], "df_deselect", 0)
\* DF_CMD_BUFF1WRITE at (page, offset): the next bytes sent go to the buffer.
Dataflash_BufferWrite(m, page, off) == Ev([m EXCEPT !.dfPtr = off], "df_bufwrite", (page * DATAFLASH_PAGE_SIZE) + off)
\* DF_CMD_BUFF1TOMAINMEMWITHERASE at page: the page becomes the buffer.
Dataflash_BufferToPage(m, page) ==
  LET base == (page * DATAFLASH_PAGE_SIZE) % DF_SIZE
  IN Ev([m EXCEPT !.dataflash = [x \in DOMAIN @ |->
                                  IF x - (x % DATAFLASH_PAGE_SIZE) = base
                                  THEN m.dfBuffer[x % DATAFLASH_PAGE_SIZE] ELSE @[x]]],
        "df_program", base)
\* Dataflash_SendByte in buffer-write mode.
Dataflash_SendByte(m, b) ==
  Ev([m EXCEPT !.dfBuffer = [@ EXCEPT ![m.dfPtr] = b],
               !.dfPtr = (@ + 1) % DATAFLASH_PAGE_SIZE], "df_send", m.dfPtr)
\* DF_CMD_CONTARRAYREAD_LF at (page, offset): the next bytes received are the
\* cells from that address on, wrapping at the end of the array.
Dataflash_ArrayRead(m, page, off) ==
  Ev([m EXCEPT !.dfPtr = ((page * DATAFLASH_PAGE_SIZE) + off) % DF_SIZE],
     "df_arrayread", (page * DATAFLASH_PAGE_SIZE) + off)
Dataflash_ReceivedByte(m) == m.dataflash[m.dfPtr]
Dataflash_ReceiveByte(m) == Ev([m EXCEPT !.dfPtr = (@ + 1) % DF_SIZE], "df_read", m.dfPtr)

(* ---------------- ProcessDownload -------------------------------------- *)
\* A handler that returns without recording the refusal.
Refuse_silent(m) == m

\* if(DFU_State != dfuIDLE){ DFU_State = dfuERROR; return; }
Refuse(m) == [m EXCEPT !.DFU_State = dfuERROR]

\* The handler is about to spin in while(!Endpoint_IsOUTReceived()).
WaitForOUT(m) == [m EXCEPT !.pc = "dnload"]

\* A flash loop that commits the previous page before it erases the new one.
RECURSIVE FlashDownloadLoop_commitfirst(_, _)
FlashDownloadLoop_commitfirst(m, i) ==
  IF i >= FIXED_CONTROL_ENDPOINT_SIZE THEN m
  ELSE
    LET cur == m.loc.curAddr
        written == IF cur # m.loc.startAddr
                   THEN boot_page_write(m, U16(cur - 2)) ELSE m
        erased == boot_page_erase(written, cur)
        page == boot_rww_enable(erased)
    IN IF cur % SPM_PAGESIZE = 0 /\ cur > m.loc.endAddr
       THEN [page EXCEPT !.DFU_State = dfuMANIFEST_SYNC]
       ELSE LET n == IF cur % SPM_PAGESIZE = 0 THEN page ELSE m
                f == boot_page_fill(n, cur, HostByte(n.host.dl.seed, cur),
                                    HostByte(n.host.dl.seed, U16(cur + 1)))
            IN FlashDownloadLoop_commitfirst([f EXCEPT !.loc.curAddr = U16(cur + 2)], i + 2)

\* for(i=0; i<FIXED_CONTROL_ENDPOINT_SIZE; i+=2, curAddr+=2) of the flash path.
RECURSIVE FlashDownloadLoop(_, _)
FlashDownloadLoop(m, i) ==
  IF i >= FIXED_CONTROL_ENDPOINT_SIZE THEN m
  ELSE
    LET cur == m.loc.curAddr
        erased == boot_page_erase(m, cur)
        written == IF cur # m.loc.startAddr
                   THEN boot_page_write(erased, U16(cur - 2)) ELSE erased
        page == boot_rww_enable(written)
    IN IF cur % SPM_PAGESIZE = 0 /\ cur > m.loc.endAddr
       THEN [page EXCEPT !.DFU_State = dfuMANIFEST_SYNC]
       ELSE LET n == IF cur % SPM_PAGESIZE = 0 THEN page ELSE m
                f == boot_page_fill(n, cur, HostByte(n.host.dl.seed, cur),
                                    HostByte(n.host.dl.seed, U16(cur + 1)))
            IN FlashDownloadLoop([f EXCEPT !.loc.curAddr = U16(cur + 2)], i + 2)

\* for(i=0; i<FIXED_CONTROL_ENDPOINT_SIZE; i++, curAddr++) of the EEPROM path.
RECURSIVE EepromDownloadLoop(_, _)
EepromDownloadLoop(m, i) ==
  IF i >= FIXED_CONTROL_ENDPOINT_SIZE THEN m
  ELSE
    LET cur == m.loc.curAddr
    IN IF cur > m.loc.endAddr
       THEN [m EXCEPT !.DFU_State = dfuMANIFEST_SYNC]
       ELSE LET w == eeprom_write_byte(m, cur, HostByte(m.host.dl.seed, cur))
            IN EepromDownloadLoop([w EXCEPT !.loc.curAddr = U16(cur + 1)], i + 1)

\* for(i=0; i<FIXED_CONTROL_ENDPOINT_SIZE; i++, curAddr++) of the dataflash path.
RECURSIVE DataflashDownloadLoop(_, _)
DataflashDownloadLoop(m, i) ==
  IF i >= FIXED_CONTROL_ENDPOINT_SIZE THEN m
  ELSE
    LET cur == m.loc.curAddr
        boundary == cur # m.loc.startAddr /\ cur % DATAFLASH_PAGE_SIZE = 0
        flushed == Dataflash_BufferToPage(m, (cur \div DATAFLASH_PAGE_SIZE) - 1)
    IN IF boundary /\ cur > m.loc.endAddr
       THEN [Dataflash_DeselectChip(flushed) EXCEPT !.DFU_State = dfuMANIFEST_SYNC]
       ELSE LET n == IF boundary
                     THEN Dataflash_BufferWrite(flushed, cur \div DATAFLASH_PAGE_SIZE, 0)
                     ELSE m
                s == Dataflash_SendByte(n, HostByte(n.host.dl.seed, cur))
            IN DataflashDownloadLoop([s EXCEPT !.loc.curAddr = U32(cur + 1)], i + 1)

\* One turn of while(DFU_State != dfuMANIFEST_SYNC) after the OUT packet has
\* arrived: dfuDNBUSY, the for loop, Endpoint_ClearOUT, dfuDNLOAD_SYNC.
DownloadPacket(m) ==
  LET busy == [m EXCEPT !.DFU_State = dfuDNBUSY]
      d0 == m.flipCommand.data[0]
      looped == IF d0 = 0 THEN FlashDownloadLoop(busy, 0)
                ELSE IF d0 = 1 THEN EepromDownloadLoop(busy, 0)
                ELSE DataflashDownloadLoop(busy, 0)
      acked == Endpoint_ClearOUT(looped)
  IN IF acked.DFU_State = dfuDNBUSY
     THEN [acked EXCEPT !.DFU_State = dfuDNLOAD_SYNC] ELSE acked

\* The host's side of an accepted Download: which window it streams, with which data.
NoteDownload(m, target) ==
  [m EXCEPT !.host.dl = [target |-> target, startAddr |-> m.loc.startAddr,
                         endAddr |-> m.loc.endAddr, seed |-> m.host.seed,
                         complete |-> FALSE],
            !.host.mods = @ + 1]

ProcessDownload(m) ==
  LET d == m.flipCommand.data
      w16 == [startAddr |-> Addr16(d[1], d[2]), endAddr |-> Addr16(d[3], d[4]),
              curAddr |-> Addr16(d[1], d[2])]
      w32 == [startAddr |-> Addr32(m.curFlash64KBPageNumber, d[1], d[2]),
              endAddr |-> Addr32(m.curFlash64KBPageNumber, d[3], d[4]),
              curAddr |-> Addr32(m.curFlash64KBPageNumber, d[1], d[2])]
  IN IF d[0] = 0 \/ d[0] = 1 THEN
       IF m.DFU_State # dfuIDLE THEN Refuse(m)
       ELSE WaitForOUT(NoteDownload([m EXCEPT !.loc = w16], d[0]))
     ELSE IF d[0] = 16 THEN
       IF m.DFU_State # dfuIDLE THEN Refuse(m)
       ELSE LET a == [m EXCEPT !.loc = w32]
                b == Dataflash_SelectChip(a)
                c == Dataflash_BufferWrite(b, a.loc.curAddr \div DATAFLASH_PAGE_SIZE,
                                           a.loc.curAddr % DATAFLASH_PAGE_SIZE)
            IN WaitForOUT(NoteDownload(c, d[0]))
     ELSE m

(* ---------------- ProcessUpload ---------------------------------------- *)
\* The handler is about to spin in while(!Endpoint_IsINReady()) of a display loop.
WaitForIN(m) == [m EXCEPT !.pc = "upload"]

\* for(i=0; i<FIXED_CONTROL_ENDPOINT_SIZE; i+=2, curAddr+=2) Endpoint_Write_Word_LE(pgm_read_word(curAddr))
RECURSIVE FlashUploadLoop(_, _)
FlashUploadLoop(m, i) ==
  IF i >= FIXED_CONTROL_ENDPOINT_SIZE THEN m
  ELSE LET cur == m.loc.curAddr
           r == Ev(m, "pgm_read", cur)
           w == Endpoint_Write_Word_LE(r, pgm_read_word(r, cur))
       IN FlashUploadLoop([w EXCEPT !.loc.curAddr = U16(cur + 2)], i + 2)

\* for(i=0; i<FIXED_CONTROL_ENDPOINT_SIZE; i++, curAddr++) Endpoint_Write_Byte(eeprom_read_byte(curAddr))
RECURSIVE EepromUploadLoop(_, _)
EepromUploadLoop(m, i) ==
  IF i >= FIXED_CONTROL_ENDPOINT_SIZE THEN m
  ELSE LET cur == m.loc.curAddr
           r == Ev(m, "ee_read", cur)
           w == Endpoint_Write_Byte(r, eeprom_read_byte(r, cur))
       IN EepromUploadLoop([w EXCEPT !.loc.curAddr = U16(cur + 1)], i + 1)

\* for(i=0; i<FIXED_CONTROL_ENDPOINT_SIZE; i++, curAddr++) Endpoint_Write_Byte(Dataflash_ReceiveByte())
RECURSIVE DataflashUploadLoop(_, _)
DataflashUploadLoop(m, i) ==
  IF i >= FIXED_CONTROL_ENDPOINT_SIZE THEN m
  ELSE LET cur == m.loc.curAddr
           w == Endpoint_Write_Byte(Dataflash_ReceiveByte(m), Dataflash_ReceivedByte(m))
       IN DataflashUploadLoop([w EXCEPT !.loc.curAddr = U32(cur + 1)], i + 1)

\* One turn of while(curAddr < endAddr) after the IN endpoint became ready.
UploadPacket(m) ==
  LET d0 == m.flipCommand.data[0]
      ready == Endpoint_WaitIN(m)
      looped == IF d0 = 0 THEN FlashUploadLoop(ready, 0)
                ELSE IF d0 = 2 THEN EepromUploadLoop(ready, 0)
                ELSE DataflashUploadLoop(ready, 0)
  IN Endpoint_ClearIN(looped)

\* What follows the display loop inside ProcessUpload.
UploadEnd(m) ==
  IF m.flipCommand.data[0] = 16 THEN Dataflash_DeselectChip(m) ELSE m

\* while(curAddr < endAddr): enter the loop (and wait) or leave it.
UploadWhile(m) ==
  IF m.loc.curAddr < m.loc.endAddr THEN WaitForIN(m) ELSE UploadEnd(m)

\* A blank check that records the address after the one it has read.
RECURSIVE FlashBlankCheck_next(_, _, _)
FlashBlankCheck_next(m, cur, endAddr) ==
  IF ~(cur < endAddr) THEN m
  ELSE LET r == Ev(m, "pgm_read", cur)
       IN IF pgm_read_byte(r, cur) # BLANK
          THEN [r EXCEPT !.DFU_State = dfuERROR, !.DFU_Status = errCHECK_ERASED,
                         !.nonBlankAddr = U16(cur + 1)]
          ELSE FlashBlankCheck_next(r, U16(cur + 1), endAddr)

\* for(curAddr=startAddr; curAddr<endAddr; curAddr++) of the flash blank check.
RECURSIVE FlashBlankCheck(_, _, _)
FlashBlankCheck(m, cur, endAddr) ==
  IF ~(cur < endAddr) THEN m
  ELSE LET r == Ev(m, "pgm_read", cur)
       IN IF pgm_read_byte(r, cur) # BLANK
          THEN [r EXCEPT !.DFU_State = dfuERROR, !.DFU_Status = errCHECK_ERASED,
                         !.nonBlankAddr = cur]
          ELSE FlashBlankCheck(r, U16(cur + 1), endAddr)

\* for(curAddr=startAddr; curAddr<endAddr; curAddr++) of the dataflash blank
\* check; nonBlankAddr is a uint16_t, the cursor a uint32_t.
RECURSIVE DataflashBlankCheck(_, _, _)
DataflashBlankCheck(m, cur, endAddr) ==
  IF ~(cur < endAddr) THEN m
  ELSE LET b == Dataflash_ReceivedByte(m)
           r == Dataflash_ReceiveByte(m)
       IN IF b # BLANK
          THEN [r EXCEPT !.DFU_State = dfuERROR, !.DFU_Status = errCHECK_ERASED,
                         !.nonBlankAddr = U16(cur)]
          ELSE DataflashBlankCheck(r, U32(cur + 1), endAddr)

ProcessUpload(m) ==
  LET d == m.flipCommand.data
      w16 == [startAddr |-> Addr16(d[1], d[2]), endAddr |-> Addr16(d[3], d[4]),
              curAddr |-> Addr16(d[1], d[2])]
      w32 == [startAddr |-> Addr32(m.curFlash64KBPageNumber, d[1], d[2]),
              endAddr |-> Addr32(m.curFlash64KBPageNumber, d[3], d[4]),
              curAddr |-> Addr32(m.curFlash64KBPageNumber, d[1], d[2])]
  IN IF d[0] = 0 THEN          \* Display FLASH Data
       IF m.DFU_State # dfuIDLE THEN Refuse(m)
       ELSE UploadWhile([m EXCEPT !.loc = w16, !.DFU_State = dfuUPLOAD_IDLE])
     ELSE IF d[0] = 1 THEN     \* Blank Check in FLASH
       FlashBlankCheck(m, w16.startAddr, w16.endAddr)
     ELSE IF d[0] = 2 THEN     \* Display EEPROM Data
       IF m.DFU_State # dfuIDLE THEN Refuse(m)
       ELSE UploadWhile([m EXCEPT !.loc = w16, !.DFU_State = dfuUPLOAD_IDLE])
     \* the branch for 0x03, Blank Check in EEPROM, is commented out in the source
     ELSE IF d[0] = 16 THEN    \* Display External Dataflash Data
       IF m.DFU_State # dfuIDLE THEN Refuse(m)
       ELSE LET a == [m EXCEPT !.loc = w32, !.DFU_State = dfuUPLOAD_IDLE]
                b == Dataflash_SelectChip(a)
                c == Dataflash_ArrayRead(b, a.loc.curAddr \div DATAFLASH_PAGE_SIZE,
                                         a.loc.curAddr % DATAFLASH_PAGE_SIZE)
            IN UploadWhile(c)
     ELSE IF d[0] = 17 THEN    \* Blank Check in Dataflash
       LET b == Dataflash_SelectChip(m)
           c == Dataflash_ArrayRead(b, w32.startAddr \div DATAFLASH_PAGE_SIZE,
                                    w32.startAddr % DATAFLASH_PAGE_SIZE)
       IN Dataflash_DeselectChip(DataflashBlankCheck(c, w32.startAddr, w32.endAddr))
     ELSE m

(* ---------------- ProcessExec ------------------------------------------ *)
\* for(curAddr=0; curAddr<BOOT_START_ADDR; curAddr+=SPM_PAGESIZE) boot_page_erase
RECURSIVE EraseFlash(_, _)
EraseFlash(m, cur) ==
  IF ~(cur < BOOT_START_ADDR) THEN m
  ELSE EraseFlash(boot_page_erase(m, cur), U16(cur + SPM_PAGESIZE))

\* for(curAddr=0; curAddr<512; curAddr++) eeprom_write_byte(curAddr, 0xFF)
RECURSIVE EraseEeprom(_, _)
EraseEeprom(m, cur) ==
  IF ~(cur < EEPROM_ERASE_LEN) THEN m
  ELSE EraseEeprom(eeprom_write_byte(m, cur, BLANK), U16(cur + 1))

\* The chip erase opcode sequence C7 94 80 9A sent to the selected dataflash.
Dataflash_ChipErase(m) ==
  Ev([m EXCEPT !.dataflash = [x \in DOMAIN @ |-> BLANK]], "df_chiperase", 0)

\* The host's side of an erase command: whatever it downloaded before is gone.
NoteErase(m) == [m EXCEPT !.host.dl = NoDownload, !.host.mods = @ + 1]

\* A start-application that takes the jump address from the wrong payload bytes.
StartApplication_wrongbytes(m) ==
  LET d == m.flipCommand.data
  IN IF d[1] = 0 THEN [m EXCEPT !.wdtEnabled = TRUE]
     ELSE IF d[1] = 1 THEN [m EXCEPT !.AppStartPtr = Addr16(d[2], d[3])]
     ELSE m

\* else if (data[0] == 0x03): wdt_enable(WDTO_250MS), or AppStartPtr = data[3..4]
StartApplication(m) ==
  LET d == m.flipCommand.data
  IN IF d[1] = 0 THEN [m EXCEPT !.wdtEnabled = TRUE]
     ELSE IF d[1] = 1 THEN [m EXCEPT !.AppStartPtr = Addr16(d[3], d[4])]
     ELSE m

ProcessExec(m) ==
  LET d == m.flipCommand.data
      \* if (data[0] == 0x00 && data[1] == 0xFF): a statement of its own
      a == IF d[0] = 0 /\ d[1] = 255
           THEN boot_rww_enable(EraseFlash(NoteErase(m), 0)) ELSE m
  IN IF d[0] = 1 /\ d[1] = 255 THEN EraseEeprom(NoteErase(a), 0)
     ELSE IF d[0] = 16 /\ d[1] = 255 THEN
       Dataflash_DeselectChip(Dataflash_ChipErase(Dataflash_SelectChip(NoteErase(a))))
     ELSE IF d[0] = 1 THEN a                          \* Set configuration
     ELSE IF d[0] = 3 THEN StartApplication(a)        \* Start application
     ELSE a

(* ---------------- ProcessRead ------------------------------------------ *)
ProcessRead(m) ==
  LET d == m.flipCommand.data
      r == Endpoint_WaitIN(m)
      w == IF d[0] = 0 THEN
             IF d[1] = 0 THEN Endpoint_Write_Byte(r, BOOTLOADER_VERSION)
             ELSE IF d[1] = 1 THEN Endpoint_Write_Byte(r, BOOTLOADER_ID_BYTE1)
             ELSE IF d[1] = 2 THEN Endpoint_Write_Byte(r, BOOTLOADER_ID_BYTE2)
             ELSE r
           ELSE IF d[0] = 1 THEN
             IF d[1] = 48 THEN Endpoint_Write_Byte(r, MANUFACTURER_CODE)
             ELSE IF d[1] = 49 THEN Endpoint_Write_Byte(r, FAMILY_CODE)
             ELSE IF d[1] = 96 THEN Endpoint_Write_Byte(r, PRODUCT_NAME)
             ELSE IF d[1] = 97 THEN Endpoint_Write_Byte(r, PRODUCT_REVISION)
             ELSE r
           ELSE r
  IN Endpoint_ClearIN(w)

(* ---------------- ProcessSelect ---------------------------------------- *)
\* A Select that does not look at the second opcode byte.
ProcessSelect_anypage(m) ==
  LET d == m.flipCommand.data
  IN IF d[0] = 3 THEN [m EXCEPT !.curFlash64KBPageNumber = d[2]] ELSE m

ProcessSelect(m) ==
  LET d == m.flipCommand.data
  IN IF d[0] = 3 /\ d[1] = 0 THEN [m EXCEPT !.curFlash64KBPageNumber = d[2]] ELSE m

(* ---------------- ProcessFlipCommand ----------------------------------- *)
ProcessFlipCommand(m) ==
  LET g == m.flipCommand.group
      c == [m EXCEPT !.inCmd = TRUE]
      r == IF g = CMD_GROUP_DOWNLOAD THEN ProcessDownload(c)
           ELSE IF g = CMD_GROUP_UPLOAD THEN ProcessUpload(c)
           ELSE IF g = CMD_GROUP_EXEC THEN ProcessExec(c)
           ELSE IF g = CMD_GROUP_READ THEN ProcessRead(c)
           ELSE IF g = CMD_GROUP_SELECT THEN ProcessSelect(c)
           ELSE c
  IN [r EXCEPT !.inCmd = FALSE]

(* ---------------- UpdateState ------------------------------------------ *)
\* A poll that also leaves the Error state.
UpdateState_clears(m) ==
  IF m.DFU_State = dfuDNLOAD_SYNC THEN [m EXCEPT !.DFU_State = dfuDNLOAD_IDLE]
  ELSE IF m.DFU_State \in {dfuUPLOAD_IDLE, dfuMANIFEST_SYNC, dfuERROR}
       THEN [m EXCEPT !.DFU_State = dfuIDLE]
  ELSE m

\* A poll that takes DownloadIdle on to Idle.
UpdateState_twostep(m) ==
  IF m.DFU_State = dfuDNLOAD_SYNC THEN [m EXCEPT !.DFU_State = dfuDNLOAD_IDLE]
  ELSE IF m.DFU_State \in {dfuUPLOAD_IDLE, dfuMANIFEST_SYNC, dfuDNLOAD_IDLE}
       THEN [m EXCEPT !.DFU_State = dfuIDLE]
  ELSE m

UpdateState(m) ==
  IF m.DFU_State = dfuDNLOAD_SYNC THEN [m EXCEPT !.DFU_State = dfuDNLOAD_IDLE]
  ELSE IF m.DFU_State = dfuUPLOAD_IDLE THEN [m EXCEPT !.DFU_State = dfuIDLE]
  ELSE IF m.DFU_State = dfuMANIFEST_SYNC THEN [m EXCEPT !.DFU_State = dfuIDLE]
  ELSE m

(* ---------------- EVENT_USB_Device_UnhandledControlRequest ------------- *)
\* Entry of the handler for request r: Endpoint_ClearSETUP().
Begin(m, r) == [m EXCEPT !.request = r, !.hw = << >>, !.epIn = << >>, !.pc = "run"]
\* Endpoint_ClearStatusStage() and the return to USB_USBTask().
Endpoint_ClearStatusStage(m) == [m EXCEPT !.pc = "idle", !.loc = NoLoc]

\* flipCommand.group = Endpoint_Read_Byte();
\* for(i=0; i<5 && i<(wLength-1); i++) flipCommand.data[i] = Endpoint_Read_Byte();
ReadCommand(m, payload, wLength) ==
  [m EXCEPT !.flipCommand =
     [group |-> payload.group,
      data |-> [i \in 0..4 |-> IF i < wLength - 1 THEN payload.data[i] ELSE @.data[i]]]]

IsBlankCheck(c) ==
  \/ c.group = CMD_GROUP_UPLOAD /\ c.data[0] = 1
  \/ c.group = CMD_GROUP_UPLOAD /\ c.data[0] = 3
  \/ c.group = CMD_GROUP_UPLOAD /\ c.data[0] = 17

\* The test that sets waitForSecondRequest in the DFU_DNLOAD case.
ProcessedByDnload(c) ==
  \/ c.group = CMD_GROUP_DOWNLOAD
  \/ IsBlankCheck(c)
  \/ c.group = CMD_GROUP_EXEC
  \/ c.group = CMD_GROUP_SELECT

\* A status response that reports the state as it was before the poll.
GetStatusCase_stale(m) ==
  LET u == UpdateState(m)
      r == Endpoint_WaitIN(u)
      b1 == Endpoint_Write_Byte(r, u.DFU_Status)
      b2 == Endpoint_Write_Byte(b1, 0)
      b3 == Endpoint_Write_Byte(b2, 0)
      b4 == Endpoint_Write_Byte(b3, 0)
      b5 == Endpoint_Write_Byte(b4, m.DFU_State)
      b6 == Endpoint_Write_Byte(b5, 0)
  IN Endpoint_ClearIN(b6)

\* case DFU_GETSTATUS
GetStatusCase(m) ==
  LET u == UpdateState(m)
      r == Endpoint_WaitIN(u)
      b1 == Endpoint_Write_Byte(r, u.DFU_Status)
      b2 == Endpoint_Write_Byte(b1, 0)
      b3 == Endpoint_Write_Byte(b2, 0)
      b4 == Endpoint_Write_Byte(b3, 0)
      b5 == Endpoint_Write_Byte(b4, u.DFU_State)
      b6 == Endpoint_Write_Byte(b5, 0)
  IN Endpoint_ClearIN(b6)

\* An Abort that also forgets the result of the last blank check.
AbortCase_forgets(m) == [m EXCEPT !.DFU_State = dfuIDLE, !.DFU_Status = OK, !.nonBlankAddr = 0]

\* case DFU_ABORT
AbortCase(m) == [m EXCEPT !.DFU_State = dfuIDLE, !.DFU_Status = OK]

\* A Clrstatus that resets the state and keeps the status.
ClrStatusCase_keepsstatus(m) == [m EXCEPT !.DFU_State = dfuIDLE]

\* case DFU_CLRSTATUS
ClrStatusCase(m) == [m EXCEPT !.DFU_State = dfuIDLE, !.DFU_Status = OK]

\* case DFU_GETSTATE
GetStateCase(m) ==
  Endpoint_ClearIN(Endpoint_Write_Byte(Endpoint_WaitIN(m), m.DFU_State))

\* A handler whose DFU_UPLOAD case breaks after ProcessFlipCommand().
AfterFlipCommand_breaks(m) == Endpoint_ClearStatusStage(m)

\* The rest of the handler once ProcessFlipCommand() has returned: the
\* DFU_DNLOAD case breaks, the DFU_UPLOAD case runs on into case DFU_GETSTATUS.
AfterFlipCommand(m) ==
  IF m.request = DFU_UPLOAD THEN Endpoint_ClearStatusStage(GetStatusCase(m))
  ELSE Endpoint_ClearStatusStage(m)

\* ProcessFlipCommand() called from the handler: it returns, or it is left
\* spinning on an endpoint flag inside a streaming loop.
CallFlipCommand(m) ==
  LET r == ProcessFlipCommand(m)
  IN IF r.pc = "run" THEN AfterFlipCommand(r) ELSE r

\* case DFU_DNLOAD with wLength # 0
DnloadCase(m, payload, wLength) ==
  LET c == ReadCommand(m, payload, wLength)
      w == [c EXCEPT !.waitForSecondRequest = ~ProcessedByDnload(c.flipCommand)]
  IN IF ~w.waitForSecondRequest THEN CallFlipCommand(w) ELSE Endpoint_ClearStatusStage(w)

\* ResetHardware(): USB_ShutDown(), SPI_ShutDown()
ResetHardware(m) == [m EXCEPT !.hwUp = FALSE]
\* A session end that jumps while USB and SPI are still up.
DnloadEmptyCase_noreset(m) == [m EXCEPT !.pc = "app"]

\* case DFU_DNLOAD with wLength = 0: ResetHardware(); AppStartPtr();
DnloadEmptyCase(m) == [ResetHardware(m) EXCEPT !.pc = "app"]

\* An Upload whose blank-check branch has no break either and runs on into
\* case DFU_GETSTATUS.
UploadCase_polls(m) ==
  IF IsBlankCheck(m.flipCommand)
  THEN LET r == Endpoint_WaitIN(m)
           w == Endpoint_Write_Word_LE(r, m.nonBlankAddr)
       IN Endpoint_ClearStatusStage(GetStatusCase(Endpoint_ClearIN(w)))
  ELSE CallFlipCommand(m)

\* case DFU_UPLOAD
UploadCase(m) ==
  IF IsBlankCheck(m.flipCommand)
  THEN LET r == Endpoint_WaitIN(m)
           w == Endpoint_Write_Word_LE(r, m.nonBlankAddr)
       IN Endpoint_ClearStatusStage(Endpoint_ClearIN(w))
  ELSE CallFlipCommand(m)

(* ---------------- the host --------------------------------------------- *)
Data(a, b, c, d, e) == [i \in 0..4 |-> << a, b, c, d, e >>[i + 1]]
Command(g, a, b, c, d, e) == [group |-> g, data |-> Data(a, b, c, d, e)]

\* The windows the host works on: one page, aligned; one byte more than a
\* packet; unaligned start over several pages; unaligned end; odd start at the
\* top of the 16-bit range; start above end; start equal to end; the whole
\* range; unaligned start inside one page.
Windows ==
  { << 0, SPM_PAGESIZE - 1 >>,
    << 0, FIXED_CONTROL_ENDPOINT_SIZE >>,
    << 2, (2 * SPM_PAGESIZE) + 1 >>,
    << SPM_PAGESIZE, SPM_PAGESIZE + 1 >>,
    << AddrMod - 3, AddrMod - 1 >>,
    << SPM_PAGESIZE, 0 >>,
    << 0, 0 >>,
    << 0, AddrMod - 1 >>,
    << 2, SPM_PAGESIZE - 1 >> }
WindowCommands(s, e) ==
  { Command(CMD_GROUP_DOWNLOAD, op, HiByte(s), LoByte(s), HiByte(e), LoByte(e)) :
      op \in {0, 1, 16} }
  \cup { Command(CMD_GROUP_UPLOAD, op, HiByte(s), LoByte(s), HiByte(e), LoByte(e)) :
      op \in {0, 1, 2, 3, 16, 17} }
SelectCommands ==
  { Command(CMD_GROUP_SELECT, 3, 0, b, 0, 0) : b \in 0..(NumBanks - 1) }
OtherCommands ==
  { Command(CMD_GROUP_DOWNLOAD, 2, 0, 0, 0, 0), Command(CMD_GROUP_UPLOAD, 4, 0, 0, 0, 0) }
  \cup { Command(CMD_GROUP_EXEC, op, 255, 0, 0, 0) : op \in {0, 1, 16} }
  \cup { Command(CMD_GROUP_EXEC, 1, 0, 0, 0, 0), Command(CMD_GROUP_EXEC, 3, 0, 0, 0, 0),
         Command(CMD_GROUP_EXEC, 3, 1, 0, 1, 2) }
  \cup { Command(CMD_GROUP_READ, 0, f, 0, 0, 0) : f \in {0, 1, 2, 3} }
  \cup { Command(CMD_GROUP_READ, 1, f, 0, 0, 0) : f \in {48, 49, 96, 97} }
  \cup { Command(CMD_GROUP_READ, 2, 0, 0, 0, 0) }
  \cup { Command(CMD_GROUP_SELECT, 3, 1, 1, 0, 0), Command(CMD_GROUP_SELECT, 0, 0, 1, 0, 0) }
  \cup { Command(2, 0, 0, 0, 0, 0) }

\* One session of the host works on one window.  The session on the first
\* window is the one that also uses the commands that carry no window and the
\* requests Detach, Getstate, Abort and the empty Dnload; the sessions on the
\* windows of BankedWindows also select the 64KB bank.
BankedWindows ==
  { << 0, FIXED_CONTROL_ENDPOINT_SIZE >>, << 2, (2 * SPM_PAGESIZE) + 1 >>,
    << SPM_PAGESIZE, SPM_PAGESIZE + 1 >> }
Sessions ==
  { [startAddr |-> w[1], endAddr |-> w[2], all |-> FALSE, banked |-> w \in BankedWindows] :
      w \in Windows }
  \cup { [startAddr |-> 0, endAddr |-> SPM_PAGESIZE - 1, all |-> TRUE, banked |-> TRUE] }
FlipCommands(session) ==
  WindowCommands(session.startAddr, session.endAddr)
  \cup (IF session.all THEN OtherCommands ELSE {})
  \cup (IF session.banked THEN SelectCommands ELSE {})

\* wLength of a Dnload that carries a FLIP command.
CommandLengths == {6}

\* Memory contents at power-up: blank, or old data in two cells of every eight.
Images == {0, 1}
Image(k, a) == IF k = 1 /\ a % 8 \in {1, 6} THEN 90 ELSE BLANK

(* ---------------- actions ---------------------------------------------- *)
\* Everything but DFU_State and DFU_Status after SetupHardware().
InitRest ==
  /\ flipCommand = Command(0, 0, 0, 0, 0, 0)
  /\ waitForSecondRequest = FALSE
  /\ nonBlankAddr = 0
  /\ AppStartPtr = 0
  /\ curFlash64KBPageNumber = 0
  /\ \E k \in Images :
       /\ flash = [a \in 0..(AddrMod - 1) |-> Image(k, a)]
       /\ eeprom = [a \in 0..(AddrMod - 1) |-> Image(k, a)]
       /\ dataflash = [a \in 0..(DF_SIZE - 1) |-> Image(k, a)]
  /\ pageBuffer = [a \in 0..(SPM_PAGESIZE - 1) |-> BLANK]
  /\ dfBuffer = [a \in 0..(DATAFLASH_PAGE_SIZE - 1) |-> 0]
  /\ dfPtr = 0
  /\ dfSelected = FALSE
  /\ wdtEnabled = FALSE
  /\ hwUp = TRUE
  /\ pc = "idle"
  /\ loc = NoLoc
  /\ request = 255
  /\ hw = << >>
  /\ epIn = << >>
  /\ \E session \in Sessions :
       host = [seed |-> 0, mods |-> 0, dl |-> NoDownload, session |-> session]

Init == DFU_State = dfuIDLE /\ DFU_Status = OK /\ InitRest

\* The host starts at most MaxMods memory-modifying commands.
Step(m) == \E n \in {m} : n.host.mods <= MaxMods /\ Become(n)

\* The host sends a request when the device waits for one.  Once it has armed
\* the watchdog it sends nothing more (the device is about to reset), and once
\* it has set a jump address it only ends the session.
HostTalks == pc = "idle" /\ ~wdtEnabled
HostStays == HostTalks /\ AppStartPtr = 0

Detach == HostStays /\ host.session.all /\ Step(Endpoint_ClearStatusStage(Begin(Cur, DFU_DETACH)))

Dnload ==
  /\ HostStays
  /\ \E c \in FlipCommands(host.session), n \in CommandLengths, seed \in HostSeeds :
       Step(DnloadCase(Begin([Cur EXCEPT !.host.seed = seed], DFU_DNLOAD), c, n))

DnloadEmpty == HostTalks /\ host.session.all /\ Step(DnloadEmptyCase(Begin(Cur, DFU_DNLOAD)))

Upload == HostStays /\ Step(UploadCase(Begin(Cur, DFU_UPLOAD)))

Getstatus ==
  HostStays /\ Step(Endpoint_ClearStatusStage(GetStatusCase(Begin(Cur, DFU_GETSTATUS))))

Clrstatus ==
  HostStays /\ Step(Endpoint_ClearStatusStage(ClrStatusCase(Begin(Cur, DFU_CLRSTATUS))))

Getstate ==
  HostStays /\ host.session.all /\ Step(Endpoint_ClearStatusStage(GetStateCase(Begin(Cur, DFU_GETSTATE))))

Abort ==
  HostStays /\ host.session.all /\ Step(Endpoint_ClearStatusStage(AbortCase(Begin(Cur, DFU_ABORT))))

\* An OUT packet arrives while ProcessDownload waits for it.
OutPacket ==
  /\ pc = "dnload"
  /\ LET p == DownloadPacket(Cur)
     IN IF p.DFU_State = dfuMANIFEST_SYNC
        THEN Step(AfterFlipCommand([p EXCEPT !.host.dl.complete = TRUE, !.inCmd = FALSE]))
        ELSE Step(p)

\* The IN endpoint becomes ready while a display loop of ProcessUpload waits for it.
InReady ==
  /\ pc = "upload"
  /\ LET p == UploadPacket(Cur)
     IN IF p.loc.curAddr < p.loc.endAddr
        THEN Step(p)
        ELSE Step(AfterFlipCommand([UploadEnd(p) EXCEPT !.inCmd = FALSE]))

Next ==
  \/ Detach \/ Dnload \/ DnloadEmpty \/ Upload \/ Getstatus
  \/ Clrstatus \/ Getstate \/ Abort \/ OutPacket \/ InReady

Spec == Init /\ [][Next]_vars

(* ---------------- UpdateState on every state value --------------------- *)
\* UpdateState() is a function of DFU_State alone.  This specification starts
\* the handler in every value of the DFU state and status enumerations and
\* lets the host poll with Getstatus.
DfuStates == { dfuIDLE, dfuDNLOAD_SYNC, dfuDNBUSY, dfuDNLOAD_IDLE, dfuMANIFEST_SYNC,
               dfuUPLOAD_IDLE, dfuERROR }
InitPoll == DFU_State \in DfuStates /\ DFU_Status \in 0..15 /\ InitRest
NextPoll == Getstatus
SpecPoll == InitPoll /\ [][NextPoll]_vars

(* ======================================================================= *)
(* Properties                                                              *)
(* ======================================================================= *)
Memories == << flash, pageBuffer, eeprom, dataflash, dfBuffer, dfPtr, dfSelected >>

IsDownloadCmd(c) == c.group = CMD_GROUP_DOWNLOAD /\ c.data[0] \in {0, 1, 16}
IsDisplayCmd(c) == c.group = CMD_GROUP_UPLOAD /\ c.data[0] \in {0, 2, 16}

\* The step hands a streaming command to its handler: a Dnload that carries a
\* Download command, or an Upload while the retained command is a streaming one.
StreamingCommandStep ==
  /\ pc = "idle"
  /\ \/ request' = DFU_DNLOAD /\ pc' # "app" /\ IsDownloadCmd(flipCommand')
     \/ request' = DFU_UPLOAD /\ (IsDownloadCmd(flipCommand') \/ IsDisplayCmd(flipCommand'))

\* C1: a streaming command (Download 0x00/0x01/0x10, display Upload
\* 0x00/0x02/0x10) processed while the DFU state is not Idle sets the state to
\* Error, leaves the status alone, touches no memory and no dataflash chip
\* select, and its handler neither consumes nor sends an endpoint packet.
C1_RefusedWhenNotIdle ==
  [][ (StreamingCommandStep /\ DFU_State # dfuIDLE)
        => /\ DFU_State' = dfuERROR
           /\ DFU_Status' = DFU_Status
           /\ UNCHANGED Memories
           /\ hw' = << >>
           /\ pc' = "idle" ]_vars

\* A Download command was refused: only a refusal leaves Error behind a Dnload
\* that carried a Download command.
C1_Witness ==
  /\ pc = "idle" /\ request = DFU_DNLOAD /\ IsDownloadCmd(flipCommand)
  /\ DFU_State = dfuERROR /\ DFU_Status = errCHECK_ERASED /\ hw = << >>

\* C2: once the DFU state is Error it stays Error over every request but
\* Clrstatus and Abort, and these two set state Idle and status Ok.
C2_ErrorIsSticky ==
  [][ DFU_State = dfuERROR
        => IF pc = "idle" /\ request' \in {DFU_CLRSTATUS, DFU_ABORT}
           THEN DFU_State' = dfuIDLE /\ DFU_Status' = OK
           ELSE DFU_State' = dfuERROR ]_vars

\* Error has survived an Upload request (which runs on into the status poll).
C2_Witness == pc = "idle" /\ request = DFU_UPLOAD /\ DFU_State = dfuERROR

\* C3: a Getstatus poll maps DownloadSync to DownloadIdle, UploadIdle to Idle,
\* ManifestSync to Idle and every other state to itself, never changes the
\* status, and a second poll changes nothing.
C3_PollTransition ==
  [][ (pc = "idle" /\ request' = DFU_GETSTATUS)
        => /\ DFU_State' = CASE DFU_State = dfuDNLOAD_SYNC -> dfuDNLOAD_IDLE
                             [] DFU_State = dfuUPLOAD_IDLE -> dfuIDLE
                             [] DFU_State = dfuMANIFEST_SYNC -> dfuIDLE
                             [] OTHER -> DFU_State
           /\ DFU_Status' = DFU_Status
           /\ (request = DFU_GETSTATUS => DFU_State' = DFU_State) ]_vars

\* A poll has taken DownloadSync to DownloadIdle.
C3_Witness ==
  /\ pc = "idle" /\ request = DFU_GETSTATUS /\ DFU_State = dfuDNLOAD_IDLE
  /\ epIn = << << DFU_Status, 0, 0, 0, dfuDNLOAD_IDLE, 0 >> >>

\* C4: Clrstatus and Abort have the same effect: state Idle, status Ok, and
\* nothing else changes (retained command, bank, blank-check result, memory),
\* so the two successor states agree in everything but the request served.
C4_ClrstatusEqualsAbort ==
  [][ (pc = "idle" /\ request' \in {DFU_CLRSTATUS, DFU_ABORT})
        => /\ DFU_State' = dfuIDLE
           /\ DFU_Status' = OK
           /\ UNCHANGED << flipCommand, waitForSecondRequest, nonBlankAddr, AppStartPtr,
                           curFlash64KBPageNumber, Memories, wdtEnabled, hwUp, loc, host >>
           /\ pc' = "idle" /\ hw' = << >> /\ epIn' = << >> ]_vars

\* Abort has cleared a blank-check error and kept the command and the result.
C4_Witness ==
  /\ pc = "idle" /\ request = DFU_ABORT /\ DFU_State = dfuIDLE /\ DFU_Status = OK
  /\ flipCommand.group = CMD_GROUP_UPLOAD /\ flipCommand.data[0] = 1 /\ nonBlankAddr # 0

\* The window [start, end) of a command with 16-bit address fields.
Start16(c) == (c.data[1] * ByteMod) + c.data[2]
End16(c) == (c.data[3] * ByteMod) + c.data[4]
Lowest(S) == CHOOSE a \in S : \A b \in S : a <= b
ReadsOf(log, kind) == { log[i][2] : i \in { j \in DOMAIN log : log[j][1] = kind } }

\* C5: a flash blank check (Upload group, opcode 0x01) runs in every DFU state;
\* over a window of blank cells it changes neither state nor status, otherwise
\* it sets Error / CheckErased, stores the lowest non-blank address of the
\* window and reads no cell above it.
C5_FlashBlankCheck ==
  [][ ( /\ pc = "idle" /\ request' = DFU_DNLOAD /\ pc' # "app"
        /\ flipCommand'.group = CMD_GROUP_UPLOAD /\ flipCommand'.data[0] = 1 )
        => LET s == Start16(flipCommand')
               e == End16(flipCommand')
               dirty == { a \in s..(e - 1) : flash[a] # BLANK }
           IN /\ UNCHANGED Memories
              /\ pc' = "idle"
              /\ IF dirty = {}
                 THEN /\ DFU_State' = DFU_State /\ DFU_Status' = DFU_Status
                      /\ nonBlankAddr' = nonBlankAddr
                      /\ ReadsOf(hw', "pgm_read") = s..(e - 1)
                 ELSE /\ DFU_State' = dfuERROR /\ DFU_Status' = errCHECK_ERASED
                      /\ nonBlankAddr' = Lowest(dirty)
                      /\ ReadsOf(hw', "pgm_read") = s..Lowest(dirty) ]_vars

\* A blank check has passed over blank cells and stopped at the first dirty one.
C5_Witness ==
  /\ pc = "idle" /\ request = DFU_DNLOAD
  /\ flipCommand.group = CMD_GROUP_UPLOAD /\ flipCommand.data[0] = 1
  /\ DFU_State = dfuERROR /\ DFU_Status = errCHECK_ERASED
  /\ nonBlankAddr > Start16(flipCommand)
  /\ Len(hw) = (nonBlankAddr - Start16(flipCommand)) + 1

\* C6: an EEPROM blank check (Upload group, opcode 0x03) over a window with a
\* cell that is not 0xFF sets Error / CheckErased and records the address of
\* the first such cell.
C6_EepromBlankCheck ==
  [][ ( /\ pc = "idle" /\ request' = DFU_DNLOAD /\ pc' # "app"
        /\ flipCommand'.group = CMD_GROUP_UPLOAD /\ flipCommand'.data[0] = 3
        /\ \E a \in Start16(flipCommand')..(End16(flipCommand') - 1) : eeprom[a] # BLANK )
        => /\ DFU_State' = dfuERROR
           /\ DFU_Status' = errCHECK_ERASED
           /\ nonBlankAddr' =
                Lowest({ a \in Start16(flipCommand')..(End16(flipCommand') - 1) :
                           eeprom[a] # BLANK }) ]_vars

\* The display opcode that reads the target a Download opcode writes.
DisplayOf(target) == CASE target = 0 -> 0 [] target = 1 -> 2 [] OTHER -> 16
\* The window a command addresses on that target.
BankOf(target) == IF target = 16 THEN curFlash64KBPageNumber ELSE 0
WindowStart(c) == Addr32(BankOf(c.data[0]), c.data[1], c.data[2])
WindowEnd(c) == Addr32(BankOf(c.data[0]), c.data[3], c.data[4])
\* The data bytes of an Upload: every IN packet before the closing status packet.
UploadedLen == (Len(epIn) - 1) * FIXED_CONTROL_ENDPOINT_SIZE
UploadedByte(k) ==
  epIn[(k \div FIXED_CONTROL_ENDPOINT_SIZE) + 1][(k % FIXED_CONTROL_ENDPOINT_SIZE) + 1]

\* C7: after a completed Download over [start, end] and the return to Idle, an
\* accepted display Upload of the same target with the same start and end
\* fields returns, for every address of the window, the byte the host supplied.
C7_RoundTrip ==
  ( /\ pc = "idle" /\ request = DFU_UPLOAD /\ DFU_State = dfuIDLE
    /\ host.dl.complete
    /\ flipCommand.group = CMD_GROUP_UPLOAD
    /\ flipCommand.data[0] = DisplayOf(host.dl.target)
    /\ WindowStart(flipCommand) = host.dl.startAddr
    /\ WindowEnd(flipCommand) = host.dl.endAddr )
    => \A a \in host.dl.startAddr..host.dl.endAddr :
         /\ (a - host.dl.startAddr) < UploadedLen
         /\ UploadedByte(a - host.dl.startAddr) = HostByte(host.dl.seed, a)

\* C8: a flash or dataflash Download completes with the OUT packet in which
\* the cursor first exceeds the end address, whatever the window's alignment:
\* that packet is acknowledged, the state becomes ManifestSync and the handler
\* waits for no further OUT packet.
C8_CompletesWhenCursorExceedsEnd ==
  [][ ( /\ pc = "dnload" /\ flipCommand.data[0] \in {0, 16}
        /\ loc.curAddr <= loc.endAddr
        /\ loc.curAddr + FIXED_CONTROL_ENDPOINT_SIZE > loc.endAddr )
        => /\ pc' = "idle"
           /\ (DFU_State' = dfuMANIFEST_SYNC \/ request = DFU_UPLOAD) ]_vars

Count(log, kind) == Cardinality({ i \in DOMAIN log : log[i][1] = kind })
PagesOf(s, e) == ((e \div SPM_PAGESIZE) - (s \div SPM_PAGESIZE)) + 1

\* C9: a flash Download whose window spans N pages issues exactly N page
\* erases and exactly N page commits between its acceptance and ManifestSync.
C9_ErasesAndCommits ==
  ( /\ pc = "idle" /\ request = DFU_DNLOAD /\ DFU_State = dfuMANIFEST_SYNC
    /\ flipCommand.group = CMD_GROUP_DOWNLOAD /\ flipCommand.data[0] = 0
    /\ Start16(flipCommand) <= End16(flipCommand) )
    => /\ Count(hw, "erase") = PagesOf(Start16(flipCommand), End16(flipCommand))
       /\ Count(hw, "commit") = PagesOf(Start16(flipCommand), End16(flipCommand))

\* C10: a display Upload accepted in Idle leaves the DFU state at UploadIdle
\* when the handling of the Upload request completes.
C10_UploadIdleAtCompletion ==
  [][ ( /\ \/ pc = "idle" /\ DFU_State = dfuIDLE /\ request' = DFU_UPLOAD
              /\ IsDisplayCmd(flipCommand')
           \/ pc = "upload"
        /\ pc' = "idle" )
        => DFU_State' = dfuUPLOAD_IDLE ]_vars

\* The identity byte a Read command selects, 256 when it selects none.
IdentityOf(c) ==
  CASE c.data[0] = 0 /\ c.data[1] = 0 -> (BOOTLOADER_VERSION_MAJOR * 16) + BOOTLOADER_VERSION_MINOR
    [] c.data[0] = 0 /\ c.data[1] = 1 -> BOOTLOADER_ID_BYTE1
    [] c.data[0] = 0 /\ c.data[1] = 2 -> BOOTLOADER_ID_BYTE2
    [] c.data[0] = 1 /\ c.data[1] = 48 -> MANUFACTURER_CODE
    [] c.data[0] = 1 /\ c.data[1] = 49 -> FAMILY_CODE
    [] c.data[0] = 1 /\ c.data[1] = 96 -> PRODUCT_NAME
    [] c.data[0] = 1 /\ c.data[1] = 97 -> PRODUCT_REVISION
    [] OTHER -> 256
\* Number of bytes in the IN packets of a request.
RECURSIVE BytesIn(_)
BytesIn(packets) ==
  IF packets = << >> THEN 0 ELSE Len(Head(packets)) + BytesIn(Tail(packets))

\* C11: the request that executes a Read command (group 5) returns exactly
\* one byte, the identity value its two selector bytes name, and leaves DFU
\* state, status, bank selector, blank-check result and memory unchanged,
\* whatever the DFU state.
C11_ReadReturnsOneByte ==
  [][ ( /\ pc = "idle" /\ request' = DFU_UPLOAD
        /\ flipCommand.group = CMD_GROUP_READ /\ IdentityOf(flipCommand) # 256 )
        => /\ BytesIn(epIn') = 1
           /\ epIn'[1] = << IdentityOf(flipCommand) >>
           /\ DFU_State' = DFU_State /\ DFU_Status' = DFU_Status
           /\ UNCHANGED << curFlash64KBPageNumber, nonBlankAddr, Memories >> ]_vars

\* A command no handler acts on: unknown group, or unknown opcode of a group.
Unrecognized(c) ==
  \/ c.group \notin { CMD_GROUP_DOWNLOAD, CMD_GROUP_UPLOAD, CMD_GROUP_EXEC,
                      CMD_GROUP_READ, CMD_GROUP_SELECT }
  \/ c.group = CMD_GROUP_DOWNLOAD /\ c.data[0] \notin {0, 1, 16}
  \/ c.group = CMD_GROUP_UPLOAD /\ c.data[0] \notin {0, 1, 2, 3, 16, 17}
  \/ c.group = CMD_GROUP_EXEC /\ c.data[0] \notin {0, 1, 3, 16}
  \/ c.group = CMD_GROUP_READ /\ IdentityOf(c) = 256
  \/ c.group = CMD_GROUP_SELECT /\ ~(c.data[0] = 3 /\ c.data[1] = 0)

\* C12: an unrecognized FLIP command is silently ignored: neither the Dnload
\* that carries it nor a following Upload changes DFU state or status, touches
\* memory or sends a response byte.
C12_UnrecognizedIgnored ==
  [][ ( /\ pc = "idle" /\ Unrecognized(flipCommand')
        /\ \/ request' = DFU_DNLOAD /\ pc' # "app"
           \/ request' = DFU_UPLOAD /\ request = DFU_DNLOAD )
        => /\ DFU_State' = DFU_State /\ DFU_Status' = DFU_Status
           /\ UNCHANGED Memories
           /\ BytesIn(epIn') = 0 ]_vars

\* The dataflash window of a command, decoded with the bank in force.
DfStart(c) == (curFlash64KBPageNumber * AddrMod) + (c.data[1] * ByteMod) + c.data[2]
DfEnd(c) == (curFlash64KBPageNumber * AddrMod) + (c.data[3] * ByteMod) + c.data[4]
IsDfDownload(c) == c.group = CMD_GROUP_DOWNLOAD /\ c.data[0] = 16
IsDfDisplay(c) == c.group = CMD_GROUP_UPLOAD /\ c.data[0] = 16
IsDfBlankCheck(c) == c.group = CMD_GROUP_UPLOAD /\ c.data[0] = 17

\* C13: every dataflash operation (Download 0x10, display Upload 0x10, blank
\* check 0x11) decodes its window as (bank << 16) | (hi << 8) | lo with the
\* bank in force when the command is processed, and the first cell it
\* addresses, and the first cell it reads, is the one at that start address.
C13_DataflashWindow ==
  [][ /\ ( /\ pc = "idle" /\ DFU_State = dfuIDLE
           /\ \/ request' = DFU_DNLOAD /\ pc' # "app" /\ IsDfDownload(flipCommand')
              \/ request' = DFU_UPLOAD /\ (IsDfDownload(flipCommand') \/ IsDfDisplay(flipCommand')) )
         => /\ Len(hw') >= 2
            /\ hw'[2] = << (IF IsDfDownload(flipCommand') THEN "df_bufwrite" ELSE "df_arrayread"),
                           DfStart(flipCommand') >>
            /\ pc' \in {"dnload", "upload"}
                 => loc' = [startAddr |-> DfStart(flipCommand'), endAddr |-> DfEnd(flipCommand'),
                            curAddr |-> DfStart(flipCommand')]
            /\ (pc' = "idle" /\ IsDfDisplay(flipCommand'))
                 => ~(DfStart(flipCommand') < DfEnd(flipCommand'))
      /\ ( /\ pc = "upload" /\ IsDfDisplay(flipCommand) /\ loc.curAddr = loc.startAddr )
         => hw'[3] = << "df_read", loc.startAddr >>
      /\ ( /\ pc = "idle" /\ request' = DFU_DNLOAD /\ pc' # "app" /\ IsDfBlankCheck(flipCommand') )
         => LET s == DfStart(flipCommand')
                e == DfEnd(flipCommand')
                dirty == { a \in s..(e - 1) : dataflash[a] # BLANK }
            IN /\ hw'[2] = << "df_arrayread", s >>
               /\ ReadsOf(hw', "df_read") = IF dirty = {} THEN s..(e - 1) ELSE s..Lowest(dirty)
    ]_vars

\* With bank 1 selected a display Upload of the dataflash has read its first
\* cell, which lies in the second 64KB bank.
C13_Witness ==
  /\ pc = "upload" /\ IsDfDisplay(flipCommand) /\ curFlash64KBPageNumber = 1
  /\ loc.startAddr = AddrMod + (flipCommand.data[1] * ByteMod) + flipCommand.data[2]
  /\ Len(hw) >= 3 /\ hw[3] = << "df_read", loc.startAddr >>

IsSelectPage(c) == c.group = CMD_GROUP_SELECT /\ c.data[0] = 3 /\ c.data[1] = 0

\* C14: the bank selector is 0 at start-up and changes only when a Select
\* command (group 6) with payload bytes (0x03, 0x00) is processed, which sets
\* it to payload byte 2; every other request or command leaves it unchanged.
C14_BankSelector ==
  /\ curFlash64KBPageNumber = 0
  /\ [][ IF pc = "idle" /\ request' = DFU_DNLOAD /\ pc' # "app" /\ IsSelectPage(flipCommand')
         THEN curFlash64KBPageNumber' = flipCommand'.data[2]
         ELSE curFlash64KBPageNumber' = curFlash64KBPageNumber ]_vars

\* Bank 1 is selected and has outlived a Select with another opcode.
C14_Witness ==
  /\ curFlash64KBPageNumber = 1 /\ pc = "idle" /\ request = DFU_DNLOAD
  /\ flipCommand.group = CMD_GROUP_SELECT /\ ~IsSelectPage(flipCommand)

\* C15: a Getstatus request sends exactly the 6 bytes status, 0, 0, 0, state,
\* 0, the state byte being the DFU state after the poll transition; a Getstate
\* request sends exactly 1 byte, the DFU state, and changes neither state nor
\* status.
C15_StatusAndStateResponses ==
  [][ /\ (pc = "idle" /\ request' = DFU_GETSTATUS)
         => /\ epIn' = << << DFU_Status, 0, 0, 0, DFU_State', 0 >> >>
            /\ DFU_State' = IF DFU_State = dfuDNLOAD_SYNC THEN dfuDNLOAD_IDLE
                            ELSE IF DFU_State \in {dfuUPLOAD_IDLE, dfuMANIFEST_SYNC} THEN dfuIDLE
                            ELSE DFU_State
      /\ (pc = "idle" /\ request' = DFU_GETSTATE)
         => /\ epIn' = << << DFU_State >> >>
            /\ DFU_State' = DFU_State /\ DFU_Status' = DFU_Status ]_vars

\* A Getstatus has reported a blank-check error: status CheckErased, state Error.
C15_Witness ==
  /\ pc = "idle" /\ request = DFU_GETSTATUS
  /\ epIn = << << errCHECK_ERASED, 0, 0, 0, dfuERROR, 0 >> >>

IsExecJump(c) == c.group = CMD_GROUP_EXEC /\ c.data[0] = 3 /\ c.data[1] = 1
IsExecWatchdog(c) == c.group = CMD_GROUP_EXEC /\ c.data[0] = 3 /\ c.data[1] = 0
JumpField(c) == (c.data[3] * ByteMod) + c.data[4]

\* C16: an empty Dnload ends the session from any DFU state: the hardware is
\* torn down and then the application is entered at the entry pointer, which is
\* 0 unless an Exec direct-jump command set it; the application is entered by
\* no other request and never with the hardware still up, and once it is
\* entered the bootloader serves nothing more.
C16_EmptyDnloadEndsSession ==
  /\ AppStartPtr = 0 /\ pc = "idle" /\ hwUp = TRUE
  /\ [][ /\ pc # "app"
         /\ (pc' = "app")
              => /\ pc = "idle" /\ request' = DFU_DNLOAD
                 /\ ~hwUp'
                 /\ UNCHANGED << AppStartPtr, flipCommand, DFU_State, DFU_Status, Memories >>
         /\ (pc' # "app") => hwUp' = hwUp
         /\ (AppStartPtr' # AppStartPtr)
              => /\ pc = "idle" /\ request' = DFU_DNLOAD /\ IsExecJump(flipCommand')
                 /\ AppStartPtr' = JumpField(flipCommand') ]_vars

\* The session has been ended in the Error state, with the default entry pointer.
C16_Witness ==
  pc = "app" /\ ~hwUp /\ DFU_State = dfuERROR /\ AppStartPtr = 0 /\ request = DFU_DNLOAD

MaxPackets == ((AddrMod + DATAFLASH_PAGE_SIZE) \div FIXED_CONTROL_ENDPOINT_SIZE) + 1

\* C18: every streaming transfer accepted in Idle terminates, whatever the
\* window, windows that end at the top of the 16-bit range included: no
\* Download still waits for an OUT packet, and no display Upload for the IN
\* endpoint, after more packets than one pass over the range takes.
C18_StreamingTerminates ==
  /\ (pc = "dnload") => Count(hw, "out") <= MaxPackets
  /\ (pc = "upload") => Count(hw, "in") <= MaxPackets

IsEeWrite(e) == e[1] = "ee_write"
EeWrites(log) == SelectSeq(log, IsEeWrite)

\* C19: an EEPROM Download accepted in Idle over [start, end] writes the cells
\* start..end once each in ascending order and no other cell, and the handling
\* of the OUT packet that carries the byte for `end` reaches ManifestSync and
\* returns, also when that byte is the last one of the packet.
C19_EepromDownload ==
  [][ ( /\ pc = "dnload" /\ request = DFU_DNLOAD
        /\ flipCommand.group = CMD_GROUP_DOWNLOAD /\ flipCommand.data[0] = 1 )
        => LET w == EeWrites(hw')
           IN /\ \A k \in DOMAIN w :
                   w[k][2] = loc.startAddr + (k - 1) /\ w[k][2] <= loc.endAddr
              /\ ( /\ loc.curAddr <= loc.endAddr
                   /\ loc.curAddr + FIXED_CONTROL_ENDPOINT_SIZE > loc.endAddr )
                   => /\ pc' = "idle" /\ DFU_State' = dfuMANIFEST_SYNC
                      /\ Len(w) = (loc.endAddr - loc.startAddr) + 1 ]_vars

IsFlashDownload(c) == c.group = CMD_GROUP_DOWNLOAD /\ c.data[0] = 0
\* The page that ends just before page p, in 16-bit arithmetic.
PageBefore(p) == ((p + AddrMod) - SPM_PAGESIZE) % AddrMod
\* The events of the boundary step that begins with the erase hw[i] are all in the log.
Logged(i) == i + 2 <= Len(hw) \/ Len(hw) < LogCap

\* C20: in a flash Download every cursor position that is a multiple of the
\* page size begins a boundary step: the page at the cursor is erased first,
\* then the page that ends just before the cursor is committed, except when
\* the cursor is the window start, where nothing is committed; then the
\* read-while-write region is re-enabled.  No word is filled inside such a
\* step, no page-aligned word is filled without one, and nothing is committed
\* or re-enabled outside one.
C20_BoundaryStep ==
  ( IsFlashDownload(flipCommand) /\ pc \in {"dnload", "idle"} )
    => /\ \A i \in DOMAIN hw :
            (hw[i][1] = "erase" /\ Logged(i))
              => IF hw[i][2] = Start16(flipCommand)
                 THEN i + 1 <= Len(hw) /\ hw[i + 1] = << "rww", 0 >>
                 ELSE /\ i + 2 <= Len(hw)
                      /\ hw[i + 1] = << "commit", PageBefore(hw[i][2]) >>
                      /\ hw[i + 2] = << "rww", 0 >>
       /\ \A i \in DOMAIN hw :
            /\ hw[i][1] = "commit" => (i > 1 /\ hw[i - 1][1] = "erase")
            /\ hw[i][1] = "rww" => (i > 1 /\ hw[i - 1][1] \in {"erase", "commit"})
            /\ (hw[i][1] = "fill" /\ hw[i][2] % SPM_PAGESIZE = 0)
                 => /\ i > 2 /\ hw[i - 1] = << "rww", 0 >>
                    /\ \/ hw[i - 2] = << "erase", hw[i][2] >>
                       \/ i > 3 /\ hw[i - 3] = << "erase", hw[i][2] >>

\* A flash Download from address 0 has completed: its first boundary step
\* committed nothing, a later one committed the page before the cursor.
C20_Witness ==
  /\ IsFlashDownload(flipCommand) /\ pc = "idle" /\ DFU_State = dfuMANIFEST_SYNC
  /\ Len(hw) > 5 /\ hw[1] = << "erase", 0 >> /\ hw[2] = << "rww", 0 >>
  /\ \E i \in DOMAIN hw : hw[i] = << "commit", 0 >> /\ hw[i - 1] = << "erase", SPM_PAGESIZE >>

\* The 2-byte little-endian word of a 16-bit value, as one IN packet.
WordPacket(w) == << w % 256, (w \div 256) % 256 >>

\* C21: the retained FLIP command changes only in a non-empty Dnload.  An
\* Upload that finds a blank check (Upload group, opcode 0x01, 0x03 or 0x11)
\* retained sends the stored result as one 2-byte little-endian word and does
\* nothing else: it runs no command handler, applies no poll transition and
\* leaves state, status, the stored result and the memories alone.  No other
\* step sends a 2-byte packet.
C21_BlankCheckResult ==
  [][ /\ (flipCommand' # flipCommand)
           => (pc = "idle" /\ request' = DFU_DNLOAD /\ pc' # "app")
      /\ (pc = "idle" /\ request' = DFU_UPLOAD /\ IsBlankCheck(flipCommand))
           => /\ epIn' = << WordPacket(nonBlankAddr) >>
              /\ hw' = << >>
              /\ pc' = "idle"
              /\ UNCHANGED << DFU_State, DFU_Status, nonBlankAddr, Memories >>
      /\ (\E k \in DOMAIN epIn' : Len(epIn'[k]) = 2)
           => \/ pc = "idle" /\ request' = DFU_UPLOAD /\ IsBlankCheck(flipCommand)
              \/ epIn' = epIn ]_vars

\* The host has fetched the address a failed blank check stored.
C21_Witness ==
  /\ pc = "idle" /\ request = DFU_UPLOAD /\ IsBlankCheck(flipCommand)
  /\ DFU_State = dfuERROR /\ DFU_Status = errCHECK_ERASED /\ nonBlankAddr # 0
  /\ epIn = << WordPacket(nonBlankAddr) >>

\* The cells of the dataflash window of command c that are not blank.
DfDirty(c) == { a \in DfStart(c)..(DfEnd(c) - 1) : dataflash[a % DF_SIZE] # BLANK }
\* The value the host reads from a 2-byte little-endian packet.
WordOf(p) == p[1] + (256 * p[2])

\* C22: a dataflash blank check (opcode 0x11) that finds its first cell that
\* is not 0xFF at the effective address A = (bank << 16) | addr16 stores
\* exactly A, for every bank, and the Upload that follows returns exactly A.
C22_DataflashResultKeepsBank ==
  [][ /\ ( /\ pc = "idle" /\ request' = DFU_DNLOAD /\ pc' # "app"
           /\ IsDfBlankCheck(flipCommand') /\ DfDirty(flipCommand') # {} )
           => nonBlankAddr' = Lowest(DfDirty(flipCommand'))
      /\ ( /\ pc = "idle" /\ request = DFU_DNLOAD /\ request' = DFU_UPLOAD
           /\ IsDfBlankCheck(flipCommand) /\ DFU_Status = errCHECK_ERASED )
           => /\ Len(epIn') = 1 /\ Len(epIn'[1]) = 2
              /\ WordOf(epIn'[1]) = Lowest(DfDirty(flipCommand)) ]_vars

\* The operations that erase or write cells of a target memory.
ModifyingKinds == {"erase", "commit", "ee_write", "df_program", "df_chiperase"}

\* C23: only a Dnload request modifies target memory: while any other request
\* is handled, whatever command is retained, no cell of flash, EEPROM or
\* dataflash changes and no erase or write operation is issued.
C23_OnlyDnloadModifies ==
  [][ (request' # DFU_DNLOAD)
        => /\ UNCHANGED << flash, eeprom, dataflash >>
           /\ \A i \in DOMAIN hw' : hw'[i][1] \notin ModifyingKinds ]_vars

\* The addresses of the flash page that starts at p.
PageCells(p) == p..(p + (SPM_PAGESIZE - 1))

\* C24: a flash Download over [start, end] erases only pages that hold an
\* address of the window: none that lies wholly above end or wholly below
\* start, and none at all when start > end.
C24_ErasesOnlyWindowPages ==
  ( IsFlashDownload(flipCommand) /\ pc \in {"dnload", "idle"} )
    => \A i \in DOMAIN hw :
         hw[i][1] = "erase"
           => \E a \in PageCells(hw[i][2]) :
                Start16(flipCommand) <= a /\ a <= End16(flipCommand)

\* C25: in a flash Download every page that is committed was erased earlier in
\* the same transfer, whether or not the start address is a multiple of the
\* page size.
C25_CommittedPagesWereErased ==
  ( IsFlashDownload(flipCommand) /\ pc \in {"dnload", "idle"} )
    => \A i \in DOMAIN hw :
         hw[i][1] = "commit"
           => \E j \in 1..(i - 1) : hw[j] = << "erase", hw[i][2] >>

C27_StatusImpliesError ==
  /\ DFU_Status \in {OK, errCHECK_ERASED}
  /\ (DFU_Status = errCHECK_ERASED) => DFU_State = dfuERROR

\* A failed blank check is still on record while later requests are served.
C27_Witness ==
  /\ DFU_Status = errCHECK_ERASED /\ DFU_State = dfuERROR
  /\ pc = "idle" /\ request = DFU_GETSTATUS

ReadKinds == {"pgm_read", "ee_read", "df_read"}

\* C28: a display Upload over [start, end) reads and sends only cells of
\* [start, end): end - start bytes of data when start < end, whatever the
\* packet size, and no data packet when start >= end.
C28_UploadStaysInWindow ==
  ( pc \in {"upload", "idle"} /\ request = DFU_UPLOAD /\ IsDisplayCmd(flipCommand) )
    => /\ \A i \in DOMAIN hw :
            hw[i][1] \in ReadKinds
              => (WindowStart(flipCommand) <= hw[i][2] /\ hw[i][2] < WindowEnd(flipCommand))
       /\ (pc = "idle" /\ DFU_State = dfuIDLE)
            => UploadedLen = IF WindowStart(flipCommand) < WindowEnd(flipCommand)
                             THEN WindowEnd(flipCommand) - WindowStart(flipCommand)
                             ELSE 0
====
